---- MODULE Spec2Model ----
(***************************************************************************)
(* Model of the TestRail pre-run modifier (src/src/TestRailPreRunModifier.py) *)
(* together with the parts of the TestRail API client it calls             *)
(* (src/src/TestRailAPIClient.py), and of the TestRail listener             *)
(* (src/src/TestRailListener.py), which runs in the test execution proper  *)
(* and has a specification of its own.                                     *)
(*                                                                         *)
(* The host (Robot Framework) walks one suite tree: start_suite on a suite *)
(* before its children, end_suite after them.  The tracker (TestRail) is   *)
(* external: each of its answers is an input of the action that asks.      *)
(***************************************************************************)
EXTENDS Integers, Sequences, FiniteSets, TLC

(***************************************************************************)
(* Bounds of the model.                                                    *)
(***************************************************************************)
NumSuites == 3        \* suites of the tree, suite 1 is the top-level suite
NumCases == 2         \* distinct non-null case ids the tracker knows
MaxRunTests == 2      \* longest answer of get_tests

(***************************************************************************)
(* Program constants.                                                      *)
(***************************************************************************)
TESTRAIL_STATUS_ID_PASSED == 1
TESTRAIL_TEST_STATUS_ID_FAILED == 5

\* Python's None where an integer is expected (a case id, a status id).
Null == -1

\* test["case_id"] of every record of an answer of get_tests
CaseIdColumn(tests_info) == [i \in DOMAIN tests_info |-> tests_info[i].case_id]

FirstCaseId == 10
CaseIds == FirstCaseId .. (FirstCaseId + NumCases - 1)

(***************************************************************************)
(* Optional lists: Python's None against a list (an empty list is a list). *)
(***************************************************************************)
NoneList == [isset |-> FALSE, v |-> <<>>]
SomeList(l) == [isset |-> TRUE, v |-> l]

Range(s) == {s[i] : i \in DOMAIN s}

(***************************************************************************)
(* Strings that the code inspects character by character are sequences of *)
(* characters.  A character of ASCII is written as itself ("A"), any other *)
(* character by its code point ("U+00C9" is the capital E with acute).  The *)
(* alphabet of the model is ASCII, U+0080 to U+024F (Latin-1 Supplement,   *)
(* Latin Extended-A and B) and the digits up to U+06FF.                    *)
(***************************************************************************)
UpperChars == <<"A","B","C","D","E","F","G","H","I","J","K","L","M",
                "N","O","P","Q","R","S","T","U","V","W","X","Y","Z">>
LowerChars == <<"a","b","c","d","e","f","g","h","i","j","k","l","m",
                "n","o","p","q","r","s","t","u","v","w","x","y","z">>
Digits == <<"0","1","2","3","4","5","6","7","8","9">>

\* The characters of U+0080 to U+024F that str.lower() changes into one
\* other character, and the characters it changes them into.
NonAsciiUpperChars ==
    <<"U+00C0", "U+00C1", "U+00C2", "U+00C3", "U+00C4", "U+00C5", "U+00C6", "U+00C7",
      "U+00C8", "U+00C9", "U+00CA", "U+00CB", "U+00CC", "U+00CD", "U+00CE", "U+00CF",
      "U+00D0", "U+00D1", "U+00D2", "U+00D3", "U+00D4", "U+00D5", "U+00D6", "U+00D8",
      "U+00D9", "U+00DA", "U+00DB", "U+00DC", "U+00DD", "U+00DE", "U+0100", "U+0102",
      "U+0104", "U+0106", "U+0108", "U+010A", "U+010C", "U+010E", "U+0110", "U+0112",
      "U+0114", "U+0116", "U+0118", "U+011A", "U+011C", "U+011E", "U+0120", "U+0122",
      "U+0124", "U+0126", "U+0128", "U+012A", "U+012C", "U+012E", "U+0132", "U+0134",
      "U+0136", "U+0139", "U+013B", "U+013D", "U+013F", "U+0141", "U+0143", "U+0145",
      "U+0147", "U+014A", "U+014C", "U+014E", "U+0150", "U+0152", "U+0154", "U+0156",
      "U+0158", "U+015A", "U+015C", "U+015E", "U+0160", "U+0162", "U+0164", "U+0166",
      "U+0168", "U+016A", "U+016C", "U+016E", "U+0170", "U+0172", "U+0174", "U+0176",
      "U+0178", "U+0179", "U+017B", "U+017D", "U+0181", "U+0182", "U+0184", "U+0186",
      "U+0187", "U+0189", "U+018A", "U+018B", "U+018E", "U+018F", "U+0190", "U+0191",
      "U+0193", "U+0194", "U+0196", "U+0197", "U+0198", "U+019C", "U+019D", "U+019F",
      "U+01A0", "U+01A2", "U+01A4", "U+01A6", "U+01A7", "U+01A9", "U+01AC", "U+01AE",
      "U+01AF", "U+01B1", "U+01B2", "U+01B3", "U+01B5", "U+01B7", "U+01B8", "U+01BC",
      "U+01C4", "U+01C5", "U+01C7", "U+01C8", "U+01CA", "U+01CB", "U+01CD", "U+01CF",
      "U+01D1", "U+01D3", "U+01D5", "U+01D7", "U+01D9", "U+01DB", "U+01DE", "U+01E0",
      "U+01E2", "U+01E4", "U+01E6", "U+01E8", "U+01EA", "U+01EC", "U+01EE", "U+01F1",
      "U+01F2", "U+01F4", "U+01F6", "U+01F7", "U+01F8", "U+01FA", "U+01FC", "U+01FE",
      "U+0200", "U+0202", "U+0204", "U+0206", "U+0208", "U+020A", "U+020C", "U+020E",
      "U+0210", "U+0212", "U+0214", "U+0216", "U+0218", "U+021A", "U+021C", "U+021E",
      "U+0220", "U+0222", "U+0224", "U+0226", "U+0228", "U+022A", "U+022C", "U+022E",
      "U+0230", "U+0232", "U+023A", "U+023B", "U+023D", "U+023E", "U+0241", "U+0243",
      "U+0244", "U+0245", "U+0246", "U+0248", "U+024A", "U+024C", "U+024E">>
NonAsciiLowerChars ==
    <<"U+00E0", "U+00E1", "U+00E2", "U+00E3", "U+00E4", "U+00E5", "U+00E6", "U+00E7",
      "U+00E8", "U+00E9", "U+00EA", "U+00EB", "U+00EC", "U+00ED", "U+00EE", "U+00EF",
      "U+00F0", "U+00F1", "U+00F2", "U+00F3", "U+00F4", "U+00F5", "U+00F6", "U+00F8",
      "U+00F9", "U+00FA", "U+00FB", "U+00FC", "U+00FD", "U+00FE", "U+0101", "U+0103",
      "U+0105", "U+0107", "U+0109", "U+010B", "U+010D", "U+010F", "U+0111", "U+0113",
      "U+0115", "U+0117", "U+0119", "U+011B", "U+011D", "U+011F", "U+0121", "U+0123",
      "U+0125", "U+0127", "U+0129", "U+012B", "U+012D", "U+012F", "U+0133", "U+0135",
      "U+0137", "U+013A", "U+013C", "U+013E", "U+0140", "U+0142", "U+0144", "U+0146",
      "U+0148", "U+014B", "U+014D", "U+014F", "U+0151", "U+0153", "U+0155", "U+0157",
      "U+0159", "U+015B", "U+015D", "U+015F", "U+0161", "U+0163", "U+0165", "U+0167",
      "U+0169", "U+016B", "U+016D", "U+016F", "U+0171", "U+0173", "U+0175", "U+0177",
      "U+00FF", "U+017A", "U+017C", "U+017E", "U+0253", "U+0183", "U+0185", "U+0254",
      "U+0188", "U+0256", "U+0257", "U+018C", "U+01DD", "U+0259", "U+025B", "U+0192",
      "U+0260", "U+0263", "U+0269", "U+0268", "U+0199", "U+026F", "U+0272", "U+0275",
      "U+01A1", "U+01A3", "U+01A5", "U+0280", "U+01A8", "U+0283", "U+01AD", "U+0288",
      "U+01B0", "U+028A", "U+028B", "U+01B4", "U+01B6", "U+0292", "U+01B9", "U+01BD",
      "U+01C6", "U+01C6", "U+01C9", "U+01C9", "U+01CC", "U+01CC", "U+01CE", "U+01D0",
      "U+01D2", "U+01D4", "U+01D6", "U+01D8", "U+01DA", "U+01DC", "U+01DF", "U+01E1",
      "U+01E3", "U+01E5", "U+01E7", "U+01E9", "U+01EB", "U+01ED", "U+01EF", "U+01F3",
      "U+01F3", "U+01F5", "U+0195", "U+01BF", "U+01F9", "U+01FB", "U+01FD", "U+01FF",
      "U+0201", "U+0203", "U+0205", "U+0207", "U+0209", "U+020B", "U+020D", "U+020F",
      "U+0211", "U+0213", "U+0215", "U+0217", "U+0219", "U+021B", "U+021D", "U+021F",
      "U+019E", "U+0223", "U+0225", "U+0227", "U+0229", "U+022B", "U+022D", "U+022F",
      "U+0231", "U+0233", "U+2C65", "U+023C", "U+019A", "U+2C66", "U+0242", "U+0180",
      "U+0289", "U+028C", "U+0247", "U+0249", "U+024B", "U+024D", "U+024F">>

\* The decimal digits outside ASCII (Arabic-Indic and Extended Arabic-Indic,
\* each block in the order 0 to 9) and the digits that are no decimal digits
\* (superscript two, three and one): str.isdigit() accepts both kinds, int()
\* the first only.
NonAsciiDecimals ==
    <<"U+0660", "U+0661", "U+0662", "U+0663", "U+0664", "U+0665", "U+0666", "U+0667", "U+0668", "U+0669",
      "U+06F0", "U+06F1", "U+06F2", "U+06F3", "U+06F4", "U+06F5", "U+06F6", "U+06F7", "U+06F8", "U+06F9">>
OtherDigits ==
    <<"U+00B2", "U+00B3", "U+00B9">>

IndexIn(table, c) == CHOOSE i \in DOMAIN table : table[i] = c

\* str.lower() on one character: the characters it gives, two of them for
\* the capital I with dot above
LowerChar(c) ==
    IF Len(c) = 1
    THEN IF \E i \in DOMAIN UpperChars : UpperChars[i] = c
         THEN <<LowerChars[IndexIn(UpperChars, c)]>>
         ELSE <<c>>
    ELSE IF c = "U+0130" THEN <<"i", "U+0307">>
    ELSE IF \E i \in DOMAIN NonAsciiUpperChars : NonAsciiUpperChars[i] = c
    THEN <<NonAsciiLowerChars[IndexIn(NonAsciiUpperChars, c)]>>
    ELSE <<c>>

\* str.lower()
RECURSIVE Lower(_)
Lower(s) == IF s = <<>> THEN <<>> ELSE LowerChar(Head(s)) \o Lower(Tail(s))

\* a character int() reads as a decimal digit
IsDecimalChar(c) ==
    IF Len(c) = 1 THEN \E d \in DOMAIN Digits : Digits[d] = c
    ELSE \E d \in DOMAIN NonAsciiDecimals : NonAsciiDecimals[d] = c

\* str.isdigit(): non-empty and every character a digit, decimal or not
IsDigit(s) ==
    /\ Len(s) > 0
    /\ \A i \in DOMAIN s :
          \/ IsDecimalChar(s[i])
          \/ \E d \in DOMAIN OtherDigits : OtherDigits[d] = s[i]

DigitValue(c) ==
    IF Len(c) = 1 THEN IndexIn(Digits, c) - 1
    ELSE (IndexIn(NonAsciiDecimals, c) - 1) % 10

\* int() raises ValueError
ValueError == -2

\* int() of a string of digits: its value, or ValueError when one of the
\* digits is no decimal digit
RECURSIVE ParseInt(_)
ParseInt(s) ==
    IF \E i \in DOMAIN s : ~IsDecimalChar(s[i]) THEN ValueError
    ELSE IF Len(s) = 0 THEN 0
    ELSE 10 * ParseInt(SubSeq(s, 1, Len(s) - 1)) + DigitValue(s[Len(s)])

\* Variant of ParseDepth that reads a negative number as its magnitude.
ParseDepthAbs(raw) ==
    IF IsDigit(raw) THEN ParseInt(raw)
    ELSE IF Len(raw) > 1 /\ raw[1] = "-" /\ IsDigit(Tail(raw)) THEN ParseInt(Tail(raw))
    ELSE 0

\* __init__: int(results_depth) if str(results_depth).isdigit() else 0
ParseDepth(raw) == IF IsDigit(raw) THEN ParseInt(raw) ELSE 0

(***************************************************************************)
(* Tags.                                                                   *)
(***************************************************************************)
\* str(case_id) as format() renders it
FormatId(c) == IF c = Null THEN "None" ELSE ToString(c)

\* 'testrailid={}'.format(case_id)
Tag(c) == "testrailid=" \o FormatId(c)

\* Variant of TagsOf without the test for None.
RECURSIVE TagsOfAll(_)
TagsOfAll(tests_info) ==
    IF tests_info = <<>> THEN <<>>
    ELSE <<Tag(Head(tests_info).case_id)>> \o TagsOfAll(Tail(tests_info))

\* _get_tr_tags_list, the final comprehension: one tag per record with a
\* non-null case id, in the order of the records
RECURSIVE TagsOf(_)
TagsOf(tests_info) ==
    IF tests_info = <<>> THEN <<>>
    ELSE (IF Head(tests_info).case_id # Null
          THEN <<Tag(Head(tests_info).case_id)>> ELSE <<>>)
         \o TagsOf(Tail(tests_info))

\* _get_tr_stable_tags_list: the case ids to fetch results for
RECURSIVE CaseIdsOf(_)
CaseIdsOf(tests_info) ==
    IF tests_info = <<>> THEN <<>>
    ELSE (IF Head(tests_info).case_id # Null
          THEN <<Head(tests_info).case_id>> ELSE <<>>)
         \o CaseIdsOf(Tail(tests_info))

\* _get_tr_stable_tags_list: the returned list, one tag per stable case id
StableTags(ids) == [i \in DOMAIN ids |-> Tag(ids[i])]

\* Variant of FilterTests that retains every test.
FilterTestsAll(tests_list, tags_list) == tests_list

\* start_suite: [t for t in tests if (set(t.tags) & set(tags_list))]
FilterTests(tests_list, tags_list) ==
    SelectSeq(tests_list, LAMBDA t : Range(t.tags) \cap Range(tags_list) # {})

(***************************************************************************)
(* The client.                                                             *)
(***************************************************************************)
\* The status list of the tracker (get_statuses), labels as the tracker
\* spells them.
StatusesInfo ==
    << [id |-> TESTRAIL_STATUS_ID_PASSED,  label |-> <<"P","a","s","s","e","d">>],
       [id |-> 2,                          label |-> <<"B","l","o","c","k","e","d">>],
       [id |-> TESTRAIL_TEST_STATUS_ID_FAILED, label |-> <<"F","a","i","l","e","d">>] >>

\* get_status_id_by_status_label: the id of the first status whose label
\* equals the given one, both lower-cased; Null stands for "raise Exception"
get_status_id_by_status_label(statuses_info, status_label) ==
    LET hits == {i \in DOMAIN statuses_info :
                    Lower(statuses_info[i].label) = Lower(status_label)}
    IN  IF hits = {} THEN Null
        ELSE statuses_info[CHOOSE i \in hits : \A j \in hits : i <= j].id

\* get_tests: ','.join(str(status_id) for status_id in status_ids)
RECURSIVE JoinIds(_)
JoinIds(ids) ==
    IF Len(ids) = 0 THEN ""
    ELSE IF Len(ids) = 1 THEN ToString(ids[1])
    ELSE ToString(ids[1]) \o "," \o JoinIds(Tail(ids))

\* get_tests: the status_id parameter of the request; "" is "no parameter"
\* (None, or a list that is empty)
StatusIdParam(status_ids) ==
    IF status_ids.isset /\ Len(status_ids.v) > 0 THEN JoinIds(status_ids.v) ELSE ""

\* Variant of ResolveStatusIds that leaves out the names without a label.
ResolveSkipUnknown(names, fail_at) ==
    LET known == SelectSeq(names,
                    LAMBDA nm : get_status_id_by_status_label(StatusesInfo, nm) # Null)
    IN  IF Len(names) = 0
        THEN [outcome |-> "ok", ids |-> NoneList, lookups |-> 0]
        ELSE IF fail_at = 0
        THEN [outcome |-> "ok", lookups |-> Len(names),
              ids |-> SomeList([i \in DOMAIN known |->
                         get_status_id_by_status_label(StatusesInfo, known[i])])]
        ELSE [outcome |-> "comm", ids |-> NoneList, lookups |-> fail_at]

\* Variant of ResolveStatusIds that lists the ids in reverse order.
ResolveReversed(names, fail_at) ==
    LET bad(i) == i = fail_at \/ get_status_id_by_status_label(StatusesInfo, names[i]) = Null
        bads   == {i \in DOMAIN names : bad(i)}
        m      == CHOOSE i \in bads : \A j \in bads : i <= j
        n      == Len(names)
    IN  IF Len(names) = 0
        THEN [outcome |-> "ok", ids |-> NoneList, lookups |-> 0]
        ELSE IF bads = {}
        THEN [outcome |-> "ok", lookups |-> Len(names),
              ids |-> SomeList([i \in DOMAIN names |->
                         get_status_id_by_status_label(StatusesInfo, names[n + 1 - i])])]
        ELSE [outcome |-> IF m = fail_at THEN "comm" ELSE "nolabel",
              ids |-> NoneList, lookups |-> m]

\* _get_tr_tags_list: the status ids to ask get_tests for.  The names are
\* looked up in order, one get_statuses request per name; fail_at is the
\* request that raises RequestException (0: none does).
\*   outcome "ok":      every name resolved, ids is the list (None if no names)
\*   outcome "comm":    a request raised RequestException
\*   outcome "nolabel": a name matched no label, Exception raised
\*   lookups:           the get_statuses requests issued
ResolveStatusIds(names, fail_at) ==
    LET bad(i) == i = fail_at \/ get_status_id_by_status_label(StatusesInfo, names[i]) = Null
        bads   == {i \in DOMAIN names : bad(i)}
        m      == CHOOSE i \in bads : \A j \in bads : i <= j
    IN  IF Len(names) = 0
        THEN [outcome |-> "ok", ids |-> NoneList, lookups |-> 0]
        ELSE IF bads = {}
        THEN [outcome |-> "ok", lookups |-> Len(names),
              ids |-> SomeList([i \in DOMAIN names |->
                         get_status_id_by_status_label(StatusesInfo, names[i])])]
        ELSE [outcome |-> IF m = fail_at THEN "comm" ELSE "nolabel",
              ids |-> NoneList, lookups |-> m]

(***************************************************************************)
(* The tracker's answers.                                                  *)
(***************************************************************************)
StatusIdPool == {TESTRAIL_STATUS_ID_PASSED, TESTRAIL_TEST_STATUS_ID_FAILED}

SeqsUpTo(S, n) == UNION {[1..k -> S] : k \in 0..n}

\* What the tracker may answer to get_tests: records of distinct cases in
\* the tracker's order (a record without case first, then by case id), of
\* the requested statuses only when statuses were requested.
GetTestsAnswers(status_ids) ==
    LET wanted == IF status_ids.isset /\ Len(status_ids.v) > 0
                  THEN StatusIdPool \cap Range(status_ids.v) ELSE StatusIdPool
        records == [case_id : CaseIds \cup {Null}, status_id : wanted]
    IN  {r \in SeqsUpTo(records, MaxRunTests) :
            \A i, j \in DOMAIN r : i < j => r[i].case_id < r[j].case_id}

\* A request either returns one of the tracker's answers or raises
\* RequestException: HTTPError from raise_for_status in _send_get, or the
\* ConnectionError or Timeout of the request itself.  The pre-run modifier
\* treats them alike.
Failure == [ok |-> FALSE, v |-> <<>>]
Answers(S) == {[ok |-> TRUE, v |-> a] : a \in S} \cup {Failure}

\* What the tracker may answer to get_results_for_case with a limit: the
\* case's results, most recent first, at most `limit` of them.
GetResultsAnswers(limit) ==
    {[i \in DOMAIN h |-> [status_id |-> h[i]]] : h \in SeqsUpTo(StatusIdPool, limit)}

(***************************************************************************)
(* Inputs of the construction and of the host.                             *)
(***************************************************************************)
\* results_depth as given on the command line
DepthArgs == { <<"0">>, <<"2">>, <<"-","1">>, <<"a","b","c">>, <<"U+00B2">> }

\* run_id as given on the command line: the id of a run, or "new"
RunIdArgs == {"20", "new"}

\* the id the tracker gives a run that add_run creates
NewRunId == "21"

\* status_names as given on the command line
NameFailed  == <<"f","a","i","l","e","d">>
NameBLOCKED == <<"B","L","O","C","K","E","D">>
NameBogus   == <<"b","o","g","u","s">>
StatusNameArgs ==
    { <<>>, <<NameFailed>>, <<NameFailed, NameBLOCKED>>, <<NameBogus>>,
      <<NameFailed, NameBogus>> }

\* The command lines of the model: depth "0" with no name, with two names
\* and with an unknown name (the latter for a new run, the only one), depth
\* "-1" with no name, depth "abc" with one name, depth "2" with a known and
\* an unknown name, and a depth of one superscript two.
Configs ==
    {<<d, n, r>> \in DepthArgs \X StatusNameArgs \X RunIdArgs :
        \/ d = <<"0">> /\ n \notin {<<NameFailed>>, <<NameBogus>>} /\ r = "20"
        \/ d = <<"0">> /\ n = <<NameBogus>> /\ r = "new"
        \/ d = <<"-","1">> /\ n = <<>> /\ r = "20"
        \/ d = <<"a","b","c">> /\ n = <<NameFailed>> /\ r = "20"
        \/ d = <<"2">> /\ n = <<NameFailed, NameBogus>> /\ r = "20"
        \/ d = <<"U+00B2">> /\ n = <<>> /\ r = "20"}

\* The test lists a suite may hold when the host hands it to start_suite.
Test(tags) == [tags |-> tags]
TestLists ==
    { <<>>,
      <<Test(<<"smoke", Tag(FirstCaseId + NumCases - 1)>>), Test(<<Tag(Null)>>),
        Test(<<Tag(FirstCaseId)>>), Test(<<"smoke">>)>> }

\* The shapes of the suite tree: suite 1 is the top-level suite (parent 0),
\* every other suite hangs under a suite of smaller number.
TreeShapes ==
    UNION { {p \in [1..n -> 0..n] :
                p[1] = 0 /\ \A s \in 2..n : p[s] \in 1..(s - 1)} : n \in 1..NumSuites }

\* The child suites of s, in document order.
RECURSIVE ChildrenUpTo(_, _, _)
ChildrenUpTo(p, s, k) ==
    IF k = 0 THEN <<>>
    ELSE ChildrenUpTo(p, s, k - 1) \o (IF p[k] = s THEN <<k>> ELSE <<>>)
Children(p, s) == ChildrenUpTo(p, s, Len(p))

(***************************************************************************)
(* State.                                                                  *)
(***************************************************************************)
VARIABLES
    run_id,                 \* self.run_id, the run_id argument of __init__
    init_call,              \* what __init__ did
    results_depth_arg,      \* the results_depth argument of __init__
    results_depth,          \* self.results_depth (Null: never assigned)
    status_names,           \* self.status_names
    tr_tags_list,           \* self._tr_tags_list (None or a list)
    tr_stable_tags_list,    \* self._tr_stable_tags_list (None or a list)
    parent,                 \* suite.parent of every suite (0: None)
    suites,                 \* suite.suites of every suite
    tests,                  \* suite.tests of every suite, from its start_suite on
    phase,                  \* "new", "started" (start_suite called), "ended"
    stack,                  \* the suites the host has started and not ended
    pc,                     \* "unbuilt", "idle", "submitting", "submitted",
                            \* "fanout", "shutdown", "aborted"
    tests_local,            \* the local `tests` of the latest start_suite call
    futures,                \* the submitted requests of the fan-out
    handled,                \* the futures future_handler has been run on
    handle_order,           \* the same, in the order as_completed yielded them
    finished_futures,       \* waiter.finished_futures of as_completed
    yielding,               \* the local `finished` of as_completed, next first
    stable_case_ids_list,   \* the local of _get_tr_stable_tags_list
    catched_exceptions,     \* the local of _get_tr_stable_tags_list
    handled_result,         \* case_results of future_handler, until the next step
    tests_info,             \* test["case_id"] of the latest answer of get_tests
    log,                    \* the records LOGGER.error has written
    caught_errors,          \* the errors the except clause of start_suite caught
    last_call,              \* what the latest start_suite call did
    resolve_calls           \* the start_suite calls that queried the tracker

\* The state of the listener and of the test run it reports to.
VARIABLES
    listener_run_id,        \* self.run_id of the listener
    listener_init_call,     \* what the listener's __init__ did
    juggler_disable,        \* self.juggler_disable, as a truth value
    update,                 \* self.update, as a truth value
    case_status,            \* tracker: status id of the latest result of each case
    env,                    \* os.environ, the variables the listener reads
    vars_for_report_link,   \* self._vars_for_report_link
    end_test_call           \* what the latest end_test call did

modifier_vars ==
        <<run_id, init_call, results_depth_arg, results_depth, status_names,
          tr_tags_list, tr_stable_tags_list, parent, suites, tests, phase, stack, pc,
          tests_local, futures, handled, handle_order, finished_futures, yielding,
          stable_case_ids_list, catched_exceptions, handled_result, tests_info, log,
          caught_errors, last_call, resolve_calls>>

listener_vars == <<listener_run_id, listener_init_call, juggler_disable, update,
                   case_status, env, vars_for_report_link, end_test_call>>

vars == <<modifier_vars, listener_vars>>

config_vars == <<run_id, init_call, results_depth_arg, results_depth, status_names,
                 parent>>
fanout_vars == <<futures, handled, handle_order, finished_futures, yielding,
                 stable_case_ids_list, catched_exceptions, handled_result>>

\* future_handler's case_results is a local: it is on record from the
\* handler's run to the next step of the fan-out.
NoResult == [i |-> 0, ok |-> FALSE, case_results |-> <<>>]

NoCall ==
    [suite |-> 0, mode |-> "none", resolved |-> FALSE, lookups |-> 0,
     get_tests |-> <<>>, fetches |-> <<>>, fetch_failed |-> FALSE,
     fetch_stable |-> FALSE, in_flight |-> 0, timeout_in_flight |-> 0,
     raised_of |-> 0, first_failed |-> 0,
     after_raised |-> FALSE, outcome |-> "none", error |-> "none"]

\* A call whose tag resolution raised.
ResolutionRaised(call) == call.resolved /\ call.outcome \in {"caught", "raised"}

\* A tag resolution has raised and none has been run since.
RaisedPending(call) == ResolutionRaised(call) \/ (call.after_raised /\ ~call.resolved)

\* The case ids of the tags the listener meets, as the tags spell them.
ListenerCaseIds == {"10", "11"}

\* Python's None against a string (an empty string is a string).
NoneStr == [some |-> FALSE, v |-> ""]
SomeStr(v) == [some |-> TRUE, v |-> v]

\* None against a text held as its characters.
NoneChars == [some |-> FALSE, v |-> <<>>]
SomeChars(v) == [some |-> TRUE, v |-> v]

\* A dictionary of texts without a key, and None against a dictionary.  The
\* values of the environment are held as their characters.
EmptyDict == [n \in {} |-> <<>>]
NoneDict == [isset |-> FALSE, v |-> EmptyDict]
SomeDict(d) == [isset |-> TRUE, v |-> d]

NoEndTest ==
    [run_id |-> "", tags |-> <<>>, status |-> "none", outcome |-> "none", case_id |-> "",
     old_test_status_id |-> Null, status_id |-> Null, defects |-> "",
     link_to_report |-> NoneChars,
     requests |-> <<>>, posted |-> FALSE, warnings |-> 0, errors |-> 0]

\* No object constructed.
NoInit == [requests |-> <<>>, client_run_id |-> "", outcome |-> "none"]

\* TestRailAPIClient.__init__, called first thing by the __init__ of the
\* modifier and of the listener: a run_id of "new" sends add_run and takes
\* the id of the new run; add_run_ok is whether the request returns.  When
\* it raises, so does the constructor.
ClientInit(run_id_arg, add_run_ok) ==
    IF run_id_arg = "new"
    THEN [requests |-> <<"add_run">>,
          client_run_id |-> IF add_run_ok THEN NewRunId ELSE "",
          outcome |-> IF add_run_ok THEN "ok" ELSE "RequestException"]
    ELSE [requests |-> <<>>, client_run_id |-> run_id_arg, outcome |-> "ok"]

\* TestRailPreRunModifier.__init__: the client is constructed, then the
\* depth is read, where int() may raise ValueError
ModifierInit(run_id_arg, depth_arg, add_run_ok) ==
    LET client == ClientInit(run_id_arg, add_run_ok)
    IN  IF client.outcome = "ok" /\ ParseDepth(depth_arg) = ValueError
        THEN [client EXCEPT !.outcome = "ValueError"]
        ELSE client

\* No listener is attached while the pre-run modifier works.
NoListener ==
    /\ listener_run_id = ""
    /\ listener_init_call = NoInit
    /\ juggler_disable = FALSE
    /\ update = FALSE
    /\ case_status = [c \in ListenerCaseIds |-> Null]
    /\ env = EmptyDict
    /\ vars_for_report_link = NoneDict
    /\ end_test_call = NoEndTest

\* The pre-run modifier after construction, the suite tree before the walk.
ModifierStart ==
    /\ \E c \in Configs :
          results_depth_arg = c[1] /\ status_names = c[2] /\ run_id = c[3]
    /\ \E add_run_ok \in BOOLEAN :
          init_call = ModifierInit(run_id, results_depth_arg, add_run_ok)
    /\ results_depth = IF init_call.outcome = "ok" THEN ParseDepth(results_depth_arg)
                       ELSE Null
    /\ tr_tags_list = NoneList
    /\ tr_stable_tags_list = NoneList
    /\ parent \in TreeShapes
    /\ suites = [s \in DOMAIN parent |-> Children(parent, s)]
    /\ tests = [s \in DOMAIN parent |-> <<>>]
    /\ phase = [s \in DOMAIN parent |-> "new"]
    /\ stack = <<>>
    /\ pc = IF init_call.outcome = "ok" THEN "idle" ELSE "unbuilt"
    /\ tests_local = <<>>
    /\ futures = <<>>
    /\ handled = {}
    /\ handle_order = <<>>
    /\ finished_futures = <<>>
    /\ yielding = <<>>
    /\ stable_case_ids_list = <<>>
    /\ catched_exceptions = <<>>
    /\ handled_result = NoResult
    /\ tests_info = NoneList
    /\ log = <<>>
    /\ caught_errors = <<>>
    /\ last_call = NoCall
    /\ resolve_calls = 0

Init == NoListener /\ ModifierStart

(***************************************************************************)
(* The host's walk (SuiteVisitor.visit_suite): start_suite(s), then the    *)
(* child suites in order, then end_suite(s).                               *)
(***************************************************************************)
Top == stack[Len(stack)]

HostStarts(s) ==
    /\ pc = "idle"
    /\ phase[s] = "new"
    /\ IF stack = <<>> THEN parent[s] = 0
       ELSE /\ parent[s] = Top
            /\ \E i \in DOMAIN suites[Top] :
                  /\ suites[Top][i] = s
                  /\ \A j \in 1..(i - 1) : phase[suites[Top][j]] = "ended"

HostEnds(s) ==
    /\ pc = "idle"
    /\ stack # <<>>
    /\ s = Top
    /\ \A i \in DOMAIN suites[s] : phase[suites[s][i]] = "ended"

\* _log_to_parent_suite: LOGGER.error only when the suite has no parent
log_to_parent_suite(s, message) ==
    IF parent[s] = 0 THEN Append(log, [suite |-> s, message |-> message]) ELSE log

\* start_suite, the except clause: the error is caught and handed to
\* _log_to_parent_suite
Catch(s, error) ==
    /\ log' = log_to_parent_suite(s, error)
    /\ caught_errors' = Append(caught_errors, [suite |-> s, error |-> error])

\* Variant of TestsAfterError in which the suite keeps its tests.
TestsAfterErrorKept(tests_list) == tests_list

\* start_suite, line 183 and the except clause: suite.tests = None leaves
\* the suite with an empty test list, which the handler does not restore
TestsAfterError(tests_list) == <<>>

\* Variant of Memoize that caches an empty list when the computation raises.
MemoizeOnError(cache, raised, tags_list) ==
    IF raised THEN SomeList(<<>>) ELSE SomeList(tags_list)

\* tr_tags_list, tr_stable_tags_list (the properties) when the attribute is
\* None: the attribute is assigned what the computation returns; when the
\* computation raises, the assignment is not reached
Memoize(cache, raised, tags_list) ==
    IF raised THEN cache ELSE SomeList(tags_list)

\* The entry of start_suite, common to all its branches.
Enter(s, tl) ==
    /\ HostStarts(s)
    /\ tl \in TestLists
    /\ phase' = [phase EXCEPT ![s] = "started"]
    /\ stack' = Append(stack, s)
    /\ tests_local' = tl
    /\ UNCHANGED <<config_vars, suites, listener_vars>>

\* start_suite of a suite without tests: the comprehension reads the tag
\* list once per test, so for no test it is not read, whether cached or not:
\* no request is sent and nothing can raise
StartSuiteNoTests(s, tl) ==
    /\ Enter(s, tl)
    /\ tl = <<>>
    /\ tests' = [tests EXCEPT ![s] = <<>>]
    /\ last_call' = [NoCall EXCEPT !.suite = s, !.outcome = "ok",
                        !.after_raised = RaisedPending(last_call),
                        !.mode = IF results_depth > 0 THEN "stable" ELSE "membership"]
    /\ UNCHANGED <<tr_tags_list, tr_stable_tags_list, pc, fanout_vars, tests_info, log,
                   caught_errors, resolve_calls>>

\* start_suite of a suite with tests when the tag list of the mode is cached
\* already
StartSuiteCached(s, tl) ==
    /\ Enter(s, tl)
    /\ tl # <<>>
    /\ IF results_depth > 0 THEN tr_stable_tags_list.isset ELSE tr_tags_list.isset
    /\ tests' = [tests EXCEPT ![s] =
                    FilterTests(tl, IF results_depth > 0 THEN tr_stable_tags_list.v
                                    ELSE tr_tags_list.v)]
    /\ last_call' = [NoCall EXCEPT !.suite = s, !.outcome = "ok",
                        !.after_raised = RaisedPending(last_call),
                        !.mode = IF results_depth > 0 THEN "stable" ELSE "membership"]
    /\ UNCHANGED <<tr_tags_list, tr_stable_tags_list, pc, fanout_vars, tests_info, log,
                   caught_errors, resolve_calls>>

\* start_suite in membership mode of a suite with tests, first use of
\* tr_tags_list: _get_tr_tags_list runs inside the call
StartSuiteMembership(s, tl) ==
    /\ Enter(s, tl)
    /\ tl # <<>>
    /\ ~(results_depth > 0)
    /\ ~tr_tags_list.isset
    /\ resolve_calls' = resolve_calls + 1
    /\ \E fail_at \in 0..Len(status_names) :
       \E r \in {ResolveStatusIds(status_names, fail_at)} :
        LET call == [NoCall EXCEPT !.suite = s, !.mode = "membership",
                        !.after_raised = RaisedPending(last_call),
                        !.resolved = TRUE, !.lookups = r.lookups]
            ask  == <<[run_id |-> run_id, status_ids |-> r.ids,
                       param |-> StatusIdParam(r.ids)]>>
        IN  CASE r.outcome = "nolabel" ->
                    \* Exception is not caught by start_suite
                    /\ tests' = [tests EXCEPT ![s] = TestsAfterError(tl)]
                    /\ pc' = "aborted"
                    /\ last_call' = [call EXCEPT !.outcome = "raised", !.error = "Exception"]
                    /\ tr_tags_list' = Memoize(tr_tags_list, TRUE, <<>>)
                    /\ UNCHANGED <<tests_info, log, caught_errors>>
              [] r.outcome = "comm" ->
                    /\ tests' = [tests EXCEPT ![s] = TestsAfterError(tl)]
                    /\ Catch(s, "RequestException")
                    /\ last_call' = [call EXCEPT !.outcome = "caught",
                                                 !.error = "RequestException"]
                    /\ tr_tags_list' = Memoize(tr_tags_list, TRUE, <<>>)
                    /\ UNCHANGED <<tests_info, pc>>
              [] r.outcome = "ok" ->
                    \E answer \in Answers(GetTestsAnswers(r.ids)) :
                        IF answer.ok
                        THEN /\ tr_tags_list' = Memoize(tr_tags_list, FALSE, TagsOf(answer.v))
                             /\ tests' = [tests EXCEPT ![s] =
                                             FilterTests(tl, TagsOf(answer.v))]
                             /\ tests_info' = SomeList(CaseIdColumn(answer.v))
                             /\ last_call' = [call EXCEPT !.outcome = "ok",
                                                 !.get_tests = ask]
                             /\ UNCHANGED <<log, caught_errors, pc>>
                        ELSE /\ tests' = [tests EXCEPT ![s] = TestsAfterError(tl)]
                             /\ Catch(s, "RequestException")
                             /\ last_call' = [call EXCEPT !.outcome = "caught",
                                                 !.get_tests = ask,
                                                 !.error = "RequestException"]
                             /\ tr_tags_list' = Memoize(tr_tags_list, TRUE, <<>>)
                             /\ UNCHANGED <<tests_info, pc>>
    /\ UNCHANGED <<tr_stable_tags_list, fanout_vars>>

\* Variant of IsStable that asks for no non-passed result, whatever the
\* number of results.
IsStableAllPassed(case_results, depth) ==
    \A i \in DOMAIN case_results : case_results[i].status_id = TESTRAIL_STATUS_ID_PASSED

\* future_handler, the else branch: the case is stable when the passed
\* results among the returned ones are results_depth many
IsStable(case_results, depth) ==
    LET passed_list == SelectSeq(case_results,
                          LAMBDA result : result.status_id = TESTRAIL_STATUS_ID_PASSED)
    IN  Len(passed_list) = depth

\* Variant of StableOutcome that returns the tags whatever was caught.
StableOutcomeLenient(stable_ids, catched) ==
    [raised |-> FALSE, error |-> 0, tags |-> StableTags(stable_ids)]

\* Variant of StableOutcome that raises the exception caught last.
StableOutcomeLast(stable_ids, catched) ==
    IF catched # <<>>
    THEN [raised |-> TRUE, error |-> catched[Len(catched)], tags |-> <<>>]
    ELSE [raised |-> FALSE, error |-> 0, tags |-> StableTags(stable_ids)]

\* _get_tr_stable_tags_list, its last three lines: raise the first caught
\* exception if there is one (error: the future it came from), else return
\* the tags of the stable case ids
StableOutcome(stable_ids, catched) ==
    IF catched # <<>>
    THEN [raised |-> TRUE, error |-> catched[1], tags |-> <<>>]
    ELSE [raised |-> FALSE, error |-> 0, tags |-> StableTags(stable_ids)]

\* Variant of ListAppend that loses what the list held (an append that
\* starts from a stale copy of the list).
ListAppendStale(list, item) == <<item>>

\* future_handler: catched_exceptions.append, stable_case_ids_list.append
ListAppend(list, item) == Append(list, item)

\* Variant of StableStatusIds that asks for the configured status names.
StableStatusIdsOfNames == ResolveStatusIds(status_names, 0).ids

\* _get_tr_stable_tags_list: status_ids=[TESTRAIL_STATUS_ID_PASSED]
StableStatusIds == SomeList(<<TESTRAIL_STATUS_ID_PASSED>>)

NoFanout ==
    /\ futures' = <<>>
    /\ handled' = {}
    /\ handle_order' = <<>>
    /\ finished_futures' = <<>>
    /\ yielding' = <<>>
    /\ stable_case_ids_list' = <<>>
    /\ catched_exceptions' = <<>>
    /\ handled_result' = NoResult

\* start_suite in stability mode of a suite with tests, first use of
\* tr_stable_tags_list: _get_tr_stable_tags_list asks for the passed tests
\* and comes to the comprehension that submits one get_results_for_case
\* request per case id to the executor
StartSuiteStable(s, tl) ==
    /\ Enter(s, tl)
    /\ tl # <<>>
    /\ results_depth > 0
    /\ ~tr_stable_tags_list.isset
    /\ resolve_calls' = resolve_calls + 1
    /\ tests' = [tests EXCEPT ![s] = TestsAfterError(tl)]
    /\ LET ids  == StableStatusIds
           call == [NoCall EXCEPT !.suite = s, !.mode = "stable", !.resolved = TRUE,
                       !.after_raised = RaisedPending(last_call),
                       !.get_tests = <<[run_id |-> run_id, status_ids |-> ids,
                                        param |-> StatusIdParam(ids)]>>]
       IN  \E answer \in Answers(GetTestsAnswers(ids)) :
              IF answer.ok
              THEN LET case_ids == CaseIdsOf(answer.v)
                   IN  /\ futures' = <<>>
                       /\ handled' = {}
                       /\ handle_order' = <<>>
                       /\ finished_futures' = <<>>
                       /\ yielding' = <<>>
                       /\ stable_case_ids_list' = <<>>
                       /\ catched_exceptions' = <<>>
                       /\ handled_result' = NoResult
                       /\ pc' = IF case_ids = <<>> THEN "submitted" ELSE "submitting"
                       /\ tests_info' = SomeList(CaseIdColumn(answer.v))
                       /\ last_call' = [call EXCEPT !.outcome = "running"]
                       /\ UNCHANGED <<log, caught_errors, tr_stable_tags_list>>
              ELSE /\ Catch(s, "RequestException")
                   /\ last_call' = [call EXCEPT !.outcome = "caught",
                                                !.error = "RequestException"]
                   /\ tr_stable_tags_list' = Memoize(tr_stable_tags_list, TRUE, <<>>)
                   /\ UNCHANGED <<pc, fanout_vars, tests_info>>
    /\ UNCHANGED tr_tags_list

InCall == <<config_vars, suites, phase, stack, tests_local, tr_tags_list, tests_info,
            resolve_calls, listener_vars>>

\* The futures that raise, in the order future_handler met them.
FailedInOrder == SelectSeq(handle_order, LAMBDA i : futures[i].state = "err")

\* What the fan-out of the call came to, for the record of the call:
\* in_flight are the requests not finished when the call ends.
FanoutRecord ==
    [last_call EXCEPT
        !.fetch_failed = \E i \in DOMAIN futures : futures[i].state = "err",
        !.fetch_stable = stable_case_ids_list # <<>>,
        !.in_flight = Cardinality({i \in DOMAIN futures : futures[i].state = "pending"}),
        !.first_failed = IF FailedInOrder = <<>> THEN 0 ELSE FailedInOrder[1]]

\* The comprehension of futures, one turn: executor.submit hands the request
\* for the next case id to a worker thread, which may finish while the
\* following requests are yet to be submitted
Submit ==
    /\ pc = "submitting"
    /\ LET case_ids == SelectSeq(tests_info.v, LAMBDA c : c # Null)
           i        == Len(futures) + 1
       IN  /\ futures' = Append(futures, [case_id |-> case_ids[i], state |-> "pending"])
           /\ last_call' = [last_call EXCEPT !.fetches =
                                Append(@, [run_id |-> run_id, case_id |-> case_ids[i],
                                           limit |-> results_depth])]
           /\ pc' = IF i = Len(case_ids) THEN "submitted" ELSE "submitting"
    /\ UNCHANGED <<InCall, tr_stable_tags_list, tests, handled, handle_order,
                   finished_futures, yielding, stable_case_ids_list, catched_exceptions,
                   handled_result, log, caught_errors>>

\* A worker thread finishes get_results_for_case for the i-th case id: the
\* request has returned ("ok") or raised RequestException ("err").  While
\* the waiter of as_completed is installed the future is added to it.
WorkerDone(i) ==
    /\ pc \in {"submitting", "submitted", "fanout", "shutdown"}
    /\ i \in DOMAIN futures
    /\ futures[i].state = "pending"
    /\ \E st \in {"ok", "err"} : futures' = [futures EXCEPT ![i].state = st]
    /\ finished_futures' = IF pc = "fanout" THEN Append(finished_futures, i)
                           ELSE finished_futures
    /\ handled_result' = NoResult
    /\ UNCHANGED <<InCall, tr_stable_tags_list, tests, pc, handled, handle_order,
                   yielding, stable_case_ids_list, catched_exceptions, log,
                   caught_errors, last_call>>

\* The orders a set may be listed in.
Orders(S) ==
    {q \in [1..Cardinality(S) -> S] : \A j, k \in 1..Cardinality(S) : j # k => q[j] # q[k]}

\* as_completed up to its loop, every request submitted: the futures
\* finished by now are the first to be yielded, in the order of a set of
\* futures; the waiter is installed on all futures and the clock of the
\* timeout starts
AsCompleted ==
    /\ pc = "submitted"
    /\ pc' = "fanout"
    /\ yielding' \in Orders({i \in DOMAIN futures : futures[i].state # "pending"})
    /\ UNCHANGED <<InCall, tr_stable_tags_list, tests, futures, handled, handle_order,
                   finished_futures, stable_case_ids_list, catched_exceptions,
                   handled_result, log, caught_errors, last_call>>

\* as_completed, waiter.event.wait woken by a finished future: what the
\* waiter has collected is yielded next, in finishing order
Wait ==
    /\ pc = "fanout"
    /\ yielding = <<>>
    /\ finished_futures # <<>>
    /\ yielding' = finished_futures
    /\ finished_futures' = <<>>
    /\ handled_result' = NoResult
    /\ UNCHANGED <<InCall, tr_stable_tags_list, tests, pc, futures, handled, handle_order,
                   stable_case_ids_list, catched_exceptions, log,
                   caught_errors, last_call>>

\* as_completed yields the next finished future and future_handler runs on
\* it; future.result() gives the tracker's answer to the request or raises
HandleFuture(i) ==
    /\ pc = "fanout"
    /\ yielding # <<>>
    /\ i = Head(yielding)
    /\ yielding' = Tail(yielding)
    /\ handled' = handled \cup {i}
    /\ handle_order' = Append(handle_order, i)
    /\ IF futures[i].state = "err"
       THEN /\ catched_exceptions' = ListAppend(catched_exceptions, i)
            /\ handled_result' = [i |-> i, ok |-> FALSE, case_results |-> <<>>]
            /\ UNCHANGED stable_case_ids_list
       ELSE /\ \E case_results \in GetResultsAnswers(results_depth) :
                 /\ handled_result' = [i |-> i, ok |-> TRUE, case_results |-> case_results]
                 /\ stable_case_ids_list' =
                       IF IsStable(case_results, results_depth)
                       THEN ListAppend(stable_case_ids_list, futures[i].case_id)
                       ELSE stable_case_ids_list
            /\ UNCHANGED catched_exceptions
    /\ UNCHANGED <<InCall, tr_stable_tags_list, tests, pc, futures, finished_futures,
                   log, caught_errors, last_call>>

\* as_completed, the head of its loop: nothing is left to yield of what was
\* collected, a future has not been yielded yet (finished or not) and
\* CONNECTION_TIMEOUT has run out: TimeoutError is raised; leaving the
\* `with` block waits for the workers
Timeout ==
    /\ pc = "fanout"
    /\ yielding = <<>>
    /\ handled # DOMAIN futures
    /\ pc' = "shutdown"
    /\ handled_result' = NoResult
    /\ last_call' = [last_call EXCEPT !.timeout_in_flight =
                        Cardinality({i \in DOMAIN futures : futures[i].state = "pending"})]
    /\ UNCHANGED <<InCall, tr_stable_tags_list, tests, futures, handled, handle_order,
                   finished_futures, yielding, stable_case_ids_list, catched_exceptions,
                   log, caught_errors>>

\* every future is handled: _get_tr_stable_tags_list raises or returns, and
\* start_suite finishes
FinishFanout ==
    /\ pc = "fanout"
    /\ handled = DOMAIN futures
    /\ LET s == Top
           r == StableOutcome(stable_case_ids_list, catched_exceptions)
       IN  IF r.raised
           THEN /\ Catch(s, "RequestException")
                /\ last_call' = [FanoutRecord EXCEPT !.outcome = "caught",
                                                     !.raised_of = r.error,
                                                     !.error = "RequestException"]
                /\ tr_stable_tags_list' = Memoize(tr_stable_tags_list, TRUE, <<>>)
                /\ UNCHANGED tests
           ELSE /\ tr_stable_tags_list' = Memoize(tr_stable_tags_list, FALSE, r.tags)
                /\ tests' = [tests EXCEPT ![s] = FilterTests(tests_local, r.tags)]
                /\ last_call' = [FanoutRecord EXCEPT !.outcome = "ok"]
                /\ UNCHANGED <<log, caught_errors>>
    /\ pc' = "idle"
    /\ NoFanout
    /\ UNCHANGED InCall

\* after a timeout, once no worker is running: TimeoutError reaches
\* start_suite, which catches it
FinishTimeout ==
    /\ pc = "shutdown"
    /\ \A i \in DOMAIN futures : futures[i].state # "pending"
    /\ Catch(Top, "TimeoutError")
    /\ last_call' = [FanoutRecord EXCEPT !.outcome = "caught", !.error = "TimeoutError"]
    /\ pc' = "idle"
    /\ NoFanout
    /\ tr_stable_tags_list' = Memoize(tr_stable_tags_list, TRUE, <<>>)
    /\ UNCHANGED <<InCall, tests>>

\* suite.test_count: the suite's own tests plus those of its child suites
RECURSIVE test_count(_, _, _)
RECURSIVE SumCounts(_, _, _)
SumCounts(ts, ss, children) ==
    IF children = <<>> THEN 0
    ELSE test_count(ts, ss, Head(children)) + SumCounts(ts, ss, Tail(children))
test_count(ts, ss, s) == Len(ts[s]) + SumCounts(ts, ss, ss[s])

\* Variant of PruneSuites that counts a child suite's own tests only.
PruneByOwnTests(ts, ss, children) ==
    SelectSeq(children, LAMBDA c : Len(ts[c]) > 0)

\* Variant of PruneSuites that removes no child suite.
PruneNothing(ts, ss, children) == children

\* end_suite: [s for s in suite.suites if s.test_count > 0]
PruneSuites(ts, ss, children) ==
    SelectSeq(children, LAMBDA c : test_count(ts, ss, c) > 0)

NoTestsMessage == "No tests to execute after using TestRail pre-run modifier."

end_suite(s) ==
    /\ HostEnds(s)
    /\ LET kept == PruneSuites(tests, suites, suites[s])
       IN  /\ suites' = [suites EXCEPT ![s] = kept]
           /\ log' = IF kept = <<>> THEN log_to_parent_suite(s, NoTestsMessage) ELSE log
    /\ phase' = [phase EXCEPT ![s] = "ended"]
    /\ stack' = SubSeq(stack, 1, Len(stack) - 1)
    /\ UNCHANGED <<config_vars, tr_tags_list, tr_stable_tags_list, tests, pc,
                   tests_local, fanout_vars, tests_info, caught_errors, last_call,
                   resolve_calls, listener_vars>>

Next ==
    \/ \E s \in DOMAIN parent, tl \in TestLists : StartSuiteNoTests(s, tl)
    \/ \E s \in DOMAIN parent, tl \in TestLists : StartSuiteCached(s, tl)
    \/ \E s \in DOMAIN parent, tl \in TestLists : StartSuiteMembership(s, tl)
    \/ \E s \in DOMAIN parent, tl \in TestLists : StartSuiteStable(s, tl)
    \/ Submit
    \/ \E i \in 1..MaxRunTests : WorkerDone(i)
    \/ AsCompleted
    \/ Wait
    \/ \E i \in 1..MaxRunTests : HandleFuture(i)
    \/ Timeout
    \/ FinishFanout
    \/ FinishTimeout
    \/ \E s \in DOMAIN parent : end_suite(s)

Spec == Init /\ [][Next]_vars

(***************************************************************************)
(* The listener (src/src/TestRailListener.py): end_test reports the result *)
(* of one finished test to the tracker.  Tags are strings here: the        *)
(* listener looks into them.  The module imports the name JsonDict from    *)
(* TestRailAPIClient for its annotations; what follows is the listener     *)
(* once the module is loaded.                                              *)
(***************************************************************************)
TESTRAIL_TEST_STATUS_ID_PASSED == 1

\* the truth value Python gives an optional string: `if case_id`, `if defects`
Truthy(o) == o.some /\ o.v # ""

\* the characters of a string
Chars(str) == [i \in 1..Len(str) |-> SubSeq(str, i, i)]

\* re.match(matcher, tag) for a matcher that is a plain word: the tag begins
\* with it
ReMatch(matcher, tag) ==
    Len(tag) >= Len(matcher) /\ SubSeq(tag, 1, Len(matcher)) = matcher

\* the positions of '=' in a tag
EqualSigns(tag) == {i \in 1..Len(tag) : SubSeq(tag, i, i) = "="}

Least(S) == CHOOSE i \in S : \A j \in S : i <= j

\* tag.split('=')[1] for a tag that holds an '=': the text after the first
\* '=' up to the next one
SplitSecond(tag) ==
    LET first == Least(EqualSigns(tag))
        rest  == EqualSigns(tag) \ {first}
        stop  == IF rest = {} THEN Len(tag) + 1 ELSE Least(rest)
    IN  SubSeq(tag, first + 1, stop - 1)

\* _get_tags_value, the loop over the tags for one matcher.  entry is what
\* attributes holds under the matcher so far: no key, or a value (None or a
\* string).  A matching tag without '=' raises IndexError.
NoKey == [present |-> FALSE, value |-> NoneStr]
RECURSIVE MatchTags(_, _, _)
MatchTags(matcher, tags, entry) ==
    IF tags = <<>> THEN [error |-> FALSE, entry |-> entry]
    ELSE IF ReMatch(matcher, Head(tags))
    THEN IF EqualSigns(Head(tags)) = {}
         THEN [error |-> TRUE, entry |-> entry]
         ELSE [error |-> FALSE,
               entry |-> [present |-> TRUE, value |-> SomeStr(SplitSecond(Head(tags)))]]
    ELSE MatchTags(matcher, Tail(tags), [present |-> TRUE, value |-> NoneStr])

\* _get_tags_value: the dictionary of the three matchers (a key is present
\* or not), or IndexError
get_tags_value(tags) ==
    LET t == MatchTags("testrailid", tags, NoKey)
        d == MatchTags("defects", tags, NoKey)
        r == MatchTags("references", tags, NoKey)
    IN  [error |-> t.error \/ d.error \/ r.error,
         testrailid |-> t.entry, defects |-> d.entry, references |-> r.entry]

\* _prepare_new_test_status_id (the "juggler"); raised: the assert failed
prepare_new_test_status_id(new_test_status, old_test_status_id) ==
    LET old_statuses_to_fail ==
            {TESTRAIL_TEST_STATUS_ID_PASSED, TESTRAIL_TEST_STATUS_ID_FAILED, Null}
    IN  IF new_test_status = "PASS"
        THEN [raised |-> FALSE, id |-> TESTRAIL_TEST_STATUS_ID_PASSED]
        ELSE IF new_test_status = "FAIL" /\ old_test_status_id \in old_statuses_to_fail
        THEN [raised |-> FALSE, id |-> TESTRAIL_TEST_STATUS_ID_FAILED]
        ELSE IF old_test_status_id = Null
        THEN [raised |-> TRUE, id |-> Null]
        ELSE [raised |-> FALSE, id |-> old_test_status_id]

\* _prepare_test_result: the status_id and the defects of the result (the
\* comment and the elapsed time are texts made of the test's attributes)
prepare_test_result(disable, status, defects, old_test_status_id) ==
    LET new == IF disable
               THEN [raised |-> FALSE,
                     id |-> IF status = "PASS" THEN TESTRAIL_TEST_STATUS_ID_PASSED
                            ELSE TESTRAIL_TEST_STATUS_ID_FAILED]
               ELSE prepare_new_test_status_id(status, old_test_status_id)
    IN  [raised |-> new.raised, status_id |-> new.id,
         defects |-> IF Truthy(defects) THEN defects.v ELSE ""]

\* attributes['status'] of a finished test
TestStatuses == {"PASS", "FAIL", "SKIP"}

\* attributes['tags'] of a finished test
TagLists ==
    { <<>>, <<"smoke">>, <<"SKIPPED">>, <<"testrailid">>, <<"testrailid=">>,
      <<"testrailid=10">>, <<"Skipped", "testrailid=10">>,
      <<"defects=BUG-1", "testrailid=11", "references=REF-3">> }

\* the status ids a result in the tracker may have
ResultStatusIds == {TESTRAIL_TEST_STATUS_ID_PASSED, 2, TESTRAIL_TEST_STATUS_ID_FAILED}

\* 'skipped' in [tag.lower() for tag in attributes['tags']]
HasSkippedTag(tags) == \E i \in DOMAIN tags : Lower(Chars(tags[i])) = Chars("skipped")

\* The characters str.strip() removes from both ends: those str.isspace()
\* holds of.  A character TLA+ has no way to write is its code point.
Whitespace ==
    {"\t", "\n", "U+000B", "\f", "\r", "U+001C", "U+001D", "U+001E", "U+001F", " ",
     "U+0085", "U+00A0", "U+1680", "U+2000", "U+2001", "U+2002", "U+2003", "U+2004",
     "U+2005", "U+2006", "U+2007", "U+2008", "U+2009", "U+200A", "U+2028", "U+2029",
     "U+202F", "U+205F", "U+3000"}

\* str.strip() of a text held as its characters
RECURSIVE Strip(_)
Strip(s) ==
    IF s = <<>> THEN <<>>
    ELSE IF Head(s) \in Whitespace THEN Strip(Tail(s))
    ELSE IF s[Len(s)] \in Whitespace THEN Strip(SubSeq(s, 1, Len(s) - 1))
    ELSE s

\* The environments the listener is run in: none of the variables, Jenkins,
\* TeamCity with every variable and a report name (a no-break space before
\* it), TeamCity with variables missing: without a report name, with one,
\* with a blank one (space, no-break space, carriage return) beside the
\* variable of Jenkins.
TeamcityVars == {"TEAMCITY_HOST_URL", "TEAMCITY_BUILDTYPE_ID", "TEAMCITY_BUILD_ID",
                 "REPORT_ARTIFACT_PATH"}
TeamcityEnv ==
    [n \in TeamcityVars |->
        CASE n = "TEAMCITY_HOST_URL" -> Chars("https://tc")
          [] n = "TEAMCITY_BUILDTYPE_ID" -> Chars("bt")
          [] n = "TEAMCITY_BUILD_ID" -> Chars("7")
          [] n = "REPORT_ARTIFACT_PATH" -> Chars("output")]
With(d, key, value) == [n \in DOMAIN d \cup {key} |-> IF n = key THEN value ELSE d[n]]
EnvArgs ==
    { EmptyDict,
      With(EmptyDict, "JENKINS_BUILD_URL", Chars("http://ci/job/1/")),
      With(TeamcityEnv, "TORS_REPORT", <<"U+00A0">> \o Chars("log.html")),
      With(EmptyDict, "TEAMCITY_HOST_URL", Chars("https://tc")),
      With(With(EmptyDict, "TEAMCITY_HOST_URL", Chars("https://tc")),
           "TORS_REPORT", Chars("log.html")),
      With(With(With(EmptyDict, "TEAMCITY_HOST_URL", Chars("https://tc")),
                "TORS_REPORT", <<" ", "U+00A0", "\r">>),
           "JENKINS_BUILD_URL", Chars("http://ci/job/1/")) }

\* _get_vars_for_report_link: the variables of the CI the environment names
\* (TeamCity before Jenkins), and the error records it writes: one when a
\* TeamCity variable is missing.  The report name is added in that case too.
get_vars_for_report_link(env_var) ==
    IF "TEAMCITY_HOST_URL" \in DOMAIN env_var
    THEN LET complete  == TeamcityVars \subseteq DOMAIN env_var
             variables == IF complete THEN [n \in TeamcityVars |-> env_var[n]]
                          ELSE EmptyDict
         IN  [errors |-> IF complete THEN 0 ELSE 1,
              variables |->
                 IF "TORS_REPORT" \in DOMAIN env_var /\ Strip(env_var["TORS_REPORT"]) # <<>>
                 THEN With(variables, "TORS_REPORT", env_var["TORS_REPORT"])
                 ELSE variables]
    ELSE IF "JENKINS_BUILD_URL" \in DOMAIN env_var
    THEN [errors |-> 0,
          variables |-> With(EmptyDict, "JENKINS_BUILD_URL", env_var["JENKINS_BUILD_URL"])]
    ELSE [errors |-> 0, variables |-> EmptyDict]

\* The property vars_for_report_link, one read: None and an empty
\* dictionary are computed again; cache is self._vars_for_report_link after
\* the read, errors the error records the read wrote
ReadVars(cache, env_var) ==
    IF ~cache.isset \/ DOMAIN cache.v = {}
    THEN LET r == get_vars_for_report_link(env_var)
         IN  [cache |-> SomeDict(r.variables), v |-> r.variables, errors |-> r.errors]
    ELSE [cache |-> cache, v |-> cache.v, errors |-> 0]

\* _get_url_report_by_case_id: the property is read for the report name, for
\* the TeamCity test, then for the TeamCity variables or for the Jenkins test
\* and the Jenkins variable
get_url_report_by_case_id(cache, env_var, case_id) ==
    LET r1 == ReadVars(cache, env_var)
        report_filename == IF "TORS_REPORT" \in DOMAIN r1.v THEN r1.v["TORS_REPORT"]
                           ELSE Chars("report.html")
        report_uri == report_filename \o Chars("#search?include=testrailid=")
                         \o Chars(case_id)
        r2 == ReadVars(r1.cache, env_var)
        r3 == ReadVars(r2.cache, env_var)
        r4 == ReadVars(r3.cache, env_var)
    IN  IF "TEAMCITY_HOST_URL" \in DOMAIN r2.v
        THEN [cache |-> r3.cache, errors |-> r1.errors + r2.errors + r3.errors,
              url |-> SomeChars(r3.v["TEAMCITY_HOST_URL"]
                                \o Chars("/repository/download/")
                                \o r3.v["TEAMCITY_BUILDTYPE_ID"] \o Chars("/")
                                \o r3.v["TEAMCITY_BUILD_ID"] \o Chars(":id/")
                                \o r3.v["REPORT_ARTIFACT_PATH"] \o Chars("/")
                                \o report_uri)]
        ELSE IF "JENKINS_BUILD_URL" \in DOMAIN r3.v
        THEN [cache |-> r4.cache,
              errors |-> r1.errors + r2.errors + r3.errors + r4.errors,
              url |-> SomeChars(r4.v["JENKINS_BUILD_URL"] \o Chars("robot/report")
                                \o Chars("/") \o report_uri)]
        ELSE [cache |-> r3.cache, errors |-> r1.errors + r2.errors + r3.errors,
              url |-> NoneChars]

\* The ways a request to the tracker may end: it returns, it raises
\* HTTPError (raise_for_status on the tracker's answer), or it raises another
\* RequestException before there is an answer (ConnectionError, Timeout).
RequestOutcomes == {"ok", "HTTPError", "ConnectionError"}

\* end_test; update_res, get_res and post_res are the outcomes of its
\* requests.  HTTPError is caught around update_case and add_result_for_case
\* and nowhere else; no other exception is caught.  _prepare_test_result
\* makes the link to the report before anything else.
end_test(tags, status) ==
    /\ listener_init_call.outcome = "ok"
    /\ \E tags_value \in {get_tags_value(tags)} :
        LET call == [NoEndTest EXCEPT !.run_id = listener_run_id, !.tags = tags,
                                      !.status = status]
        IN  IF tags_value.error
            THEN /\ end_test_call' = [call EXCEPT !.outcome = "IndexError"]
                 /\ UNCHANGED <<case_status, vars_for_report_link>>
            ELSE IF ~tags_value.testrailid.present
            THEN /\ end_test_call' = [call EXCEPT !.outcome = "KeyError"]
                 /\ UNCHANGED <<case_status, vars_for_report_link>>
            ELSE IF ~Truthy(tags_value.testrailid.value)
            THEN /\ end_test_call' = [call EXCEPT !.outcome = "returned", !.warnings = 1]
                 /\ UNCHANGED <<case_status, vars_for_report_link>>
            ELSE LET case_id == tags_value.testrailid.value.v
                     seen    == [call EXCEPT !.case_id = case_id]
                 IN  IF HasSkippedTag(tags)
                     THEN /\ end_test_call' = [seen EXCEPT !.outcome = "returned",
                                                           !.warnings = 1]
                          /\ UNCHANGED <<case_status, vars_for_report_link>>
                     ELSE \E update_res \in IF update THEN RequestOutcomes ELSE {"ok"} :
                          LET updated == IF update
                                         THEN [seen EXCEPT
                                                 !.requests = <<"update_case">>,
                                                 !.errors = IF update_res = "HTTPError"
                                                            THEN 1 ELSE 0]
                                         ELSE seen
                              asked == [updated EXCEPT !.requests =
                                          Append(@, "get_results_for_case")]
                          IN  IF update_res = "ConnectionError"
                              THEN /\ end_test_call' =
                                         [updated EXCEPT !.outcome = "ConnectionError"]
                                   /\ UNCHANGED <<case_status, vars_for_report_link>>
                              ELSE \E get_res \in RequestOutcomes :
                              IF get_res = "ConnectionError"
                              THEN /\ end_test_call' =
                                         [asked EXCEPT !.outcome = "ConnectionError"]
                                   /\ UNCHANGED <<case_status, vars_for_report_link>>
                              ELSE IF ~(get_res = "ok" /\ case_id \in ListenerCaseIds)
                              THEN /\ end_test_call' = [asked EXCEPT !.outcome = "HTTPError"]
                                   /\ UNCHANGED <<case_status, vars_for_report_link>>
                              ELSE LET old == case_status[case_id]
                                       res == prepare_test_result(juggler_disable, status,
                                                  tags_value.defects.value, old)
                                       link == get_url_report_by_case_id(
                                                  vars_for_report_link, env, case_id)
                                       got == [asked EXCEPT !.old_test_status_id = old,
                                                            !.link_to_report = link.url,
                                                            !.errors = @ + link.errors]
                                   IN  /\ vars_for_report_link' = link.cache
                                       /\ IF res.raised
                                          THEN /\ end_test_call' =
                                                     [got EXCEPT !.outcome = "AssertionError"]
                                               /\ UNCHANGED case_status
                                          ELSE \E post_res \in RequestOutcomes :
                                               /\ end_test_call' =
                                                     [got EXCEPT
                                                        !.outcome =
                                                           IF post_res = "ConnectionError"
                                                           THEN "ConnectionError"
                                                           ELSE "returned",
                                                        !.status_id = res.status_id,
                                                        !.defects = res.defects,
                                                        !.requests = Append(@, "add_result_for_case"),
                                                        !.posted = (post_res = "ok"),
                                                        !.errors = IF post_res = "HTTPError"
                                                                   THEN @ + 1 ELSE @]
                                               /\ case_status' =
                                                     IF post_res = "ok"
                                                     THEN [case_status EXCEPT
                                                              ![case_id] = res.status_id]
                                                     ELSE case_status
    /\ UNCHANGED <<listener_run_id, listener_init_call, juggler_disable, update, env,
                   modifier_vars>>

\* The listener after construction, the run as the tracker holds it; the
\* pre-run modifier has no part in the execution proper.
ListenerInit ==
    /\ ModifierStart
    /\ results_depth_arg = <<"0">>
    /\ status_names = <<>>
    /\ parent = <<0>>
    /\ listener_run_id \in RunIdArgs
    /\ \E add_run_ok \in BOOLEAN :
          listener_init_call = ClientInit(listener_run_id, add_run_ok)
    /\ juggler_disable \in BOOLEAN
    /\ update \in BOOLEAN
    /\ case_status \in [ListenerCaseIds -> ResultStatusIds \cup {Null}]
    /\ env \in IF listener_run_id = "new" THEN {EmptyDict} ELSE EnvArgs
    /\ vars_for_report_link = NoneDict
    /\ end_test_call = NoEndTest

ListenerNext == \E tags \in TagLists, status \in TestStatuses : end_test(tags, status)

ListenerSpec == ListenerInit /\ [][ListenerNext]_vars

(***************************************************************************)
(* Properties.                                                             *)
(***************************************************************************)
LastSuite == last_call.suite

Finished == last_call.outcome \in {"ok", "caught", "raised"}

\* The tests of a list that carry the tag of a non-null case id of a column
\* of case ids, in the order of the list.
TaggedWithCaseOf(tests_list, case_ids) ==
    SelectSeq(tests_list,
              LAMBDA t : \E k \in DOMAIN case_ids :
                            /\ case_ids[k] # Null
                            /\ \E j \in DOMAIN t.tags :
                                  t.tags[j] = "testrailid=" \o ToString(case_ids[k]))

\* C1: in membership mode, a start_suite call whose tracker queries succeeded
\* (or that used the cached list, or had no query to make for a suite
\* without tests) leaves the suite with exactly the tests of its original
\* list, in their order, that carry 'testrailid=<c>' for a non-null case id c
\* of the answer of get_tests; a suite with tests is filtered against an
\* answer.
C1_MembershipFilter ==
    (last_call.mode = "membership" /\ last_call.outcome = "ok")
        => /\ tests_local # <<>> => tests_info.isset
           /\ tests[LastSuite] = TaggedWithCaseOf(tests_local, tests_info.v)

\* C1 witness: a membership call that kept a test and dropped another.
C1_Witness ==
    /\ last_call.mode = "membership"
    /\ last_call.outcome = "ok"
    /\ tests[LastSuite] # <<>>
    /\ Len(tests[LastSuite]) < Len(tests_local)

AllPassedOfLength(case_results, depth) ==
    /\ Len(case_results) = depth
    /\ \A k \in DOMAIN case_results : case_results[k].status_id = 1

\* C2: in stability mode, a case whose result fetch succeeded is in the
\* stable list if and only if the returned list has exactly results_depth
\* entries and each of them has status_id 1.
C2_StableIffExactWindowAllPassed ==
    (pc = "fanout" /\ handled_result.i # 0 /\ handled_result.ok)
        => ( (\E k \in DOMAIN stable_case_ids_list :
                 stable_case_ids_list[k] = futures[handled_result.i].case_id)
             <=> AllPassedOfLength(handled_result.case_results, results_depth) )

\* C2 witness: a handled fetch with a full window of passed results, its
\* case in the stable list.
C2_Witness ==
    /\ pc = "fanout"
    /\ handled_result.ok
    /\ AllPassedOfLength(handled_result.case_results, results_depth)
    /\ stable_case_ids_list # <<>>

\* C3: the tracker calls that compute the tag list are issued during at most
\* one start_suite call of the run.
C3_ResolvedInOneCall == resolve_calls <= 1

\* C4: in stability mode, when a per-case fetch raised RequestException the
\* call ends with an error raised by the computation, and the stable tag
\* list stays unset; it is unset all through the fan-out as well.
C4_FailedFetchFailsResolution ==
    /\ pc \in {"submitting", "submitted", "fanout", "shutdown"} => ~tr_stable_tags_list.isset
    /\ (Finished /\ last_call.fetch_failed)
          => /\ last_call.outcome = "caught"
             /\ last_call.error \in {"RequestException", "TimeoutError"}
             /\ ~tr_stable_tags_list.isset

\* C4 witness: a fan-out that found a stable case and lost a fetch.
C4_Witness ==
    /\ last_call.outcome = "caught"
    /\ last_call.error = "RequestException"
    /\ last_call.fetch_failed
    /\ last_call.fetch_stable

\* C5: a RequestException or TimeoutError of the tag resolution does not
\* leave start_suite: the call returns, and the suite has no tests.
C5_CaughtErrorEmptiesSuite ==
    last_call.error \in {"RequestException", "TimeoutError"}
        => /\ last_call.outcome = "caught"
           /\ pc = "idle"
           /\ tests[LastSuite] = <<>>

\* C5 witness: a suite that held tests when the resolution failed.
C5_Witness ==
    /\ last_call.outcome = "caught"
    /\ tests_local # <<>>
    /\ tests[LastSuite] = <<>>

\* The tests of a suite and of all the suites below it, counted over the
\* tree the host was given.
RECURSIVE TotalTests(_)
RECURSIVE SumTotals(_)
SumTotals(S) ==
    IF S = {} THEN 0
    ELSE LET d == CHOOSE x \in S : TRUE
         IN  TotalTests(d) + SumTotals(S \ {d})
TotalTests(c) == Len(tests[c]) + SumTotals({d \in DOMAIN parent : parent[d] = c})

NoTestsRecords(s) ==
    {k \in DOMAIN log : log[k] = [suite |-> s, message |-> NoTestsMessage]}

\* C6: after end_suite(s), suite.suites holds the child suites of s whose
\* total test count is above zero, in their original order, and no other;
\* a top-level suite left without child suites has one diagnostic logged.
C6_EndSuitePrunesEmptyChildren ==
    \A s \in DOMAIN parent :
        phase[s] = "ended"
            => /\ suites[s] = SelectSeq(Children(parent, s), LAMBDA c : TotalTests(c) > 0)
               /\ (parent[s] = 0 /\ suites[s] = <<>>)
                     => Cardinality(NoTestsRecords(s)) = 1

\* C6 witness: the top-level suite ended, one of its two child suites
\* removed and the other kept.
C6_Witness ==
    /\ phase[1] = "ended"
    /\ Len(Children(parent, 1)) = 2
    /\ Len(suites[1]) = 1

\* C7: a results_depth of "-1" or "abc" gives results_depth 0: the calls run
\* in membership mode and no per-case result fetch is issued.
C7_InvalidDepthIsZero ==
    results_depth_arg \in { <<"-","1">>, <<"a","b","c">> }
        => /\ results_depth = 0
           /\ last_call.mode # "stable"
           /\ last_call.fetches = <<>>
           /\ pc \notin {"submitting", "submitted", "fanout", "shutdown"}
           /\ futures = <<>>
           /\ ~tr_stable_tags_list.isset

\* C7 witness: a suite filtered in membership mode after construction with
\* "-1".
C7_Witness ==
    /\ results_depth_arg = <<"-","1">>
    /\ last_call.mode = "membership"
    /\ last_call.outcome = "ok"
    /\ tests[LastSuite] # <<>>

\* C8: a record with a null case id gives no tag and no result fetch: neither
\* tag list holds 'testrailid=None', no fetch is for a null case id, and a
\* test whose only tag is 'testrailid=None' is never retained.
C8_NullCaseIdGivesNoTag ==
    /\ \A k \in DOMAIN tr_tags_list.v : tr_tags_list.v[k] # "testrailid=None"
    /\ \A k \in DOMAIN tr_stable_tags_list.v : tr_stable_tags_list.v[k] # "testrailid=None"
    /\ \A k \in DOMAIN last_call.fetches : last_call.fetches[k].case_id # Null
    /\ \A k \in DOMAIN futures : futures[k].case_id # Null
    /\ \A s \in DOMAIN parent : \A k \in DOMAIN tests[s] :
          tests[s][k].tags # <<"testrailid=None">>

\* C8 witness: the tracker answered with a null case id and a suite holding
\* a test tagged 'testrailid=None' was filtered against the list.
C8_Witness ==
    /\ last_call.outcome = "ok"
    /\ \E k \in DOMAIN tests_info.v : tests_info.v[k] = Null
    /\ \E k \in DOMAIN tests_local : tests_local[k].tags = <<"testrailid=None">>
    /\ tests[LastSuite] # <<>>

\* C9: in membership mode get_tests is called at most once per computation
\* of the tag list; with status names it is given the ids of the names, in
\* the order of the names, each the id of a status whose label is the name
\* up to letter case, after one lookup per name; without status names it is
\* given no status restriction; the tests retained are those tagged with a
\* case id of the answer.
C9_StatusIdsInNameOrder ==
    (last_call.mode = "membership" /\ last_call.resolved)
        => /\ Len(last_call.get_tests) <= 1
           /\ last_call.outcome = "ok" => Len(last_call.get_tests) = 1
           /\ \A k \in DOMAIN last_call.get_tests :
                 LET q == last_call.get_tests[k]
                 IN  IF status_names = <<>>
                     THEN q.status_ids = NoneList /\ q.param = ""
                     ELSE /\ q.status_ids.isset
                          /\ last_call.lookups = Len(status_names)
                          /\ Len(q.status_ids.v) = Len(status_names)
                          /\ \A i \in DOMAIN status_names :
                                \E j \in DOMAIN StatusesInfo :
                                   /\ StatusesInfo[j].id = q.status_ids.v[i]
                                   /\ Lower(StatusesInfo[j].label) = Lower(status_names[i])
                          /\ status_names = <<NameFailed, NameBLOCKED>>
                                => q.status_ids.v = <<5, 2>> /\ q.param = "5,2"
           /\ tests[LastSuite] =
                 TaggedWithCaseOf(tests_local,
                                  IF last_call.outcome = "ok" THEN tests_info.v ELSE <<>>)

\* C9 witness: two status names resolved, get_tests answered, a test kept.
C9_Witness ==
    /\ status_names = <<NameFailed, NameBLOCKED>>
    /\ last_call.mode = "membership"
    /\ last_call.resolved
    /\ last_call.outcome = "ok"
    /\ tests[LastSuite] # <<>>

\* The status names that match no label of the tracker, letter case aside.
UnknownNames ==
    {i \in DOMAIN status_names :
        \A j \in DOMAIN StatusesInfo :
            Lower(StatusesInfo[j].label) # Lower(status_names[i])}

FirstUnknown == CHOOSE i \in UnknownNames : \A j \in UnknownNames : i <= j

\* C10 as claimed: in membership mode with a status name that matches no
\* label, the first start_suite call raises an error that start_suite does
\* not catch, no get_tests query is issued and no suite is filtered.
C10_FirstCallRaises ==
    (results_depth = 0 /\ UnknownNames # {} /\ LastSuite # 0)
        => /\ last_call.outcome = "raised"
           /\ pc = "aborted"
           /\ last_call.get_tests = <<>>
           /\ ~tr_tags_list.isset

\* C10 amended: in membership mode with a status name that matches no label,
\* every start_suite call for a suite that holds a test either raises an
\* error that start_suite does not catch, after the lookup of the first such
\* name, and the run is over; or it catches the RequestException of a
\* get_statuses request made no later than that lookup.  A call for a suite
\* without tests looks nothing up and returns.  No get_tests query is
\* issued, the tag list is never set and no suite keeps a test.
C10_UnknownLabelAborts ==
    (results_depth = 0 /\ UnknownNames # {} /\ LastSuite # 0)
        => /\ last_call.get_tests = <<>>
           /\ ~tr_tags_list.isset
           /\ \A s \in DOMAIN parent : tests[s] = <<>>
           /\ \/ /\ tests_local # <<>>
                 /\ last_call.outcome = "raised"
                 /\ last_call.error = "Exception"
                 /\ last_call.lookups = FirstUnknown
                 /\ pc = "aborted"
              \/ /\ tests_local # <<>>
                 /\ last_call.outcome = "caught"
                 /\ last_call.error = "RequestException"
                 /\ last_call.lookups <= FirstUnknown
                 /\ pc = "idle"
              \/ /\ tests_local = <<>>
                 /\ last_call.outcome = "ok"
                 /\ ~last_call.resolved
                 /\ last_call.lookups = 0
                 /\ pc = "idle"

\* C10 witness: the second name is unknown, the call looked both up and
\* raised, with tests in the suite.
C10_Witness ==
    /\ status_names = <<NameFailed, NameBogus>>
    /\ last_call.outcome = "raised"
    /\ last_call.lookups = 2
    /\ tests_local # <<>>

\* C11: once a start_suite call has caught a communication or timeout error
\* of the tag resolution, the suite of every later start_suite call is left
\* without tests.
C11_NoTestsAfterError ==
    (caught_errors # <<>> /\ LastSuite # caught_errors[1].suite)
        => tests[LastSuite] = <<>>

\* The records of the log that report an error caught by start_suite.
ErrorRecords == SelectSeq(log, LAMBDA r : r.message # NoTestsMessage)

\* C12: every error caught by start_suite, whatever the depth of its suite,
\* has its own error record in the log, written against the top-level suite.
C12_EveryCaughtErrorLogged ==
    /\ Len(ErrorRecords) = Len(caught_errors)
    /\ \A k \in DOMAIN caught_errors :
          /\ k \in DOMAIN ErrorRecords
          /\ ErrorRecords[k] = [suite |-> 1, message |-> caught_errors[k].error]

\* The tests of a list that carry a tag of a tag list, in the order of the
\* list.
CarryingTagOf(tests_list, tags_list) ==
    SelectSeq(tests_list,
              LAMBDA t : \E i \in DOMAIN t.tags, j \in DOMAIN tags_list :
                            t.tags[i] = tags_list[j])

\* C13: with results_depth > 0 a call filters against the stable tag list
\* only, its one get_tests query asks for status id 1 and no status name is
\* looked up; with results_depth = 0 a call filters against the membership
\* tag list only and no per-case result fetch is issued.
C13_ModeFixedByDepth ==
    /\ results_depth > 0
          => /\ last_call.mode \in {"none", "stable"}
             /\ last_call.lookups = 0
             /\ ~tr_tags_list.isset
             /\ Len(last_call.get_tests) <= 1
             /\ \A k \in DOMAIN last_call.get_tests :
                   /\ last_call.get_tests[k].status_ids = [isset |-> TRUE, v |-> <<1>>]
                   /\ last_call.get_tests[k].param = "1"
             /\ last_call.outcome = "ok"
                   => /\ tests_local # <<>> => tr_stable_tags_list.isset
                      /\ tests[LastSuite] = CarryingTagOf(tests_local, tr_stable_tags_list.v)
    /\ results_depth = 0
          => /\ last_call.mode \in {"none", "membership"}
             /\ last_call.fetches = <<>>
             /\ futures = <<>>
             /\ pc \notin {"submitting", "submitted", "fanout", "shutdown"}
             /\ ~tr_stable_tags_list.isset
             /\ last_call.outcome = "ok"
                   => /\ tests_local # <<>> => tr_tags_list.isset
                      /\ tests[LastSuite] = CarryingTagOf(tests_local, tr_tags_list.v)

\* C13 witness: depth 2 and status names, one of them unknown to the tracker;
\* the resolving call went through and kept a test.
C13_Witness ==
    /\ results_depth > 0
    /\ status_names = <<NameFailed, NameBogus>>
    /\ last_call.resolved
    /\ last_call.outcome = "ok"
    /\ tests[LastSuite] # <<>>

\* C14: when end_test has run the juggler (juggler_disable unset), the
\* status id it comes to is 1 for 'PASS', 5 for 'FAIL' with an old status id
\* of null, 1 or 5, and the old status id in every other case; the juggler
\* returns in every case.
C14_JugglerStatusId ==
    (end_test_call.requests # <<>>
     /\ end_test_call.outcome \in {"returned", "AssertionError"}
     /\ ~juggler_disable)
        => /\ end_test_call.outcome = "returned"
           /\ end_test_call.status_id =
                 IF end_test_call.status = "PASS" THEN 1
                 ELSE IF end_test_call.status = "FAIL"
                         /\ end_test_call.old_test_status_id \in {Null, 1, 5} THEN 5
                 ELSE end_test_call.old_test_status_id

\* C15: in stability mode, when as_completed times out with requests in
\* flight, TimeoutError reaches start_suite at once: requests are still in
\* flight when start_suite catches it.
C15_TimeoutLeavesRequestsInFlight ==
    (last_call.error = "TimeoutError" /\ last_call.timeout_in_flight > 0)
        => last_call.in_flight > 0

\* C16: in stability mode without a timeout, no error is raised while a
\* future is unhandled; when the call ends with the RequestException of a
\* per-case request, no request is in flight and the exception is the one
\* of the failing request that future_handler met first.
C16_FirstCapturedAfterAllSettled ==
    /\ pc \in {"submitting", "submitted", "fanout"} => last_call.outcome = "running"
    /\ (last_call.mode = "stable" /\ last_call.fetch_failed
        /\ last_call.error = "RequestException")
          => /\ last_call.outcome = "caught"
             /\ last_call.in_flight = 0
             /\ last_call.raised_of # 0
             /\ last_call.raised_of = last_call.first_failed

\* C16 witness: a call that ended with the exception of the second request,
\* with a stable case found by the other request.
C16_Witness ==
    /\ last_call.outcome = "caught"
    /\ last_call.error = "RequestException"
    /\ last_call.raised_of = 2
    /\ last_call.fetch_stable

\* C17: all through the fan-out, whatever the order in which the workers
\* finish and the futures are handled, each handled future has appended at
\* most once: a failed one exactly once to catched_exceptions, a successful
\* one at most once to stable_case_ids_list; an unhandled future has appended
\* nothing, and no appended entry is missing or repeated.
C17_OneAppendPerHandledFuture ==
    pc \in {"submitting", "submitted", "fanout", "shutdown"}
        => LET errs == {i \in handled : futures[i].state = "err"}
               oks  == handled \ errs
           IN  /\ Len(handle_order) = Cardinality(handled)
               /\ Len(catched_exceptions) = Cardinality(errs)
               /\ {catched_exceptions[k] : k \in DOMAIN catched_exceptions} = errs
               /\ Len(stable_case_ids_list) <= Cardinality(oks)
               /\ Len(stable_case_ids_list) + Len(catched_exceptions) <= Cardinality(handled)
               /\ \A j, k \in DOMAIN stable_case_ids_list :
                     j # k => stable_case_ids_list[j] # stable_case_ids_list[k]
               /\ \A k \in DOMAIN stable_case_ids_list :
                     \E i \in oks : futures[i].case_id = stable_case_ids_list[k]
               /\ (handled_result.i # 0 /\ handled_result.ok
                   /\ AllPassedOfLength(handled_result.case_results, results_depth))
                     => \E k \in DOMAIN stable_case_ids_list :
                           stable_case_ids_list[k] = futures[handled_result.i].case_id

\* C17 witness: two futures handled, the second before the first, one
\* appended to each list, while the fan-out is on.
C17_Witness ==
    /\ pc = "fanout"
    /\ handle_order = <<2, 1>>
    /\ Len(catched_exceptions) = 1
    /\ Len(stable_case_ids_list) = 1

\* C18: for every list of tags end_test returns; without a case id it gives
\* a warning and sends no request to the tracker; with a tag that reads
\* 'skipped' in any letter case no result is posted.
C18_EndTestWithoutCaseId ==
    end_test_call.status # "none"
        => /\ end_test_call.outcome \notin {"KeyError", "IndexError"}
           /\ end_test_call.case_id = ""
                 => /\ end_test_call.outcome = "returned"
                    /\ end_test_call.warnings = 1
                    /\ end_test_call.requests = <<>>
           /\ HasSkippedTag(end_test_call.tags)
                 => /\ ~end_test_call.posted
                    /\ \A k \in DOMAIN end_test_call.requests :
                          end_test_call.requests[k] # "add_result_for_case"

\* The suites still in the tree: the top-level suite and every suite that
\* its parent, itself in the tree, still lists.
RECURSIVE KeptInTree(_)
KeptInTree(s) ==
    \/ parent[s] = 0
    \/ /\ \E k \in DOMAIN suites[parent[s]] : suites[parent[s]][k] = s
       /\ KeptInTree(parent[s])

\* The tag list of the mode.
ResolvedTags == IF results_depth > 0 THEN tr_stable_tags_list ELSE tr_tags_list

\* C19: after a whole walk with the tag resolution succeeding, every suite
\* still in the tree other than the top-level suite has a total test count
\* above zero, and every test still in the tree carries a tag of the
\* resolved tag list.
C19_WalkedTreeKeepsMatchingTestsOnly ==
    (phase[1] = "ended" /\ caught_errors = <<>> /\ ResolvedTags.isset)
        => \A s \in DOMAIN parent :
              KeptInTree(s)
                 => /\ parent[s] # 0 => TotalTests(s) > 0
                    /\ \A k \in DOMAIN tests[s] :
                          \E i \in DOMAIN tests[s][k].tags, j \in DOMAIN ResolvedTags.v :
                             tests[s][k].tags[i] = ResolvedTags.v[j]

\* C19 witness: a walk of three suites is over, the resolution succeeded,
\* one child suite of the top-level suite is gone and the other is kept
\* with tests of its own.
C19_Witness ==
    /\ phase[1] = "ended"
    /\ caught_errors = <<>>
    /\ ResolvedTags.isset
    /\ Len(Children(parent, 1)) = 2
    /\ Len(suites[1]) = 1
    /\ tests[suites[1][1]] # <<>>

\* C20: the diagnostic 'No tests to execute after using TestRail pre-run
\* modifier.' is in the log of a top-level suite only if no test is left in
\* the suite and below it.
C20_NoTestsMessageOnlyWithoutTests ==
    \A s \in DOMAIN parent :
        (parent[s] = 0 /\ NoTestsRecords(s) # {}) => TotalTests(s) = 0

\* The requests to the tracker a call has on record.
QueriesOf(call) == call.lookups + Len(call.get_tests)

\* C21 as claimed: a tag list is cached only when a resolution has returned;
\* after a call whose resolution raised (RequestException, TimeoutError or
\* the Exception of an unknown status label) both caches are unset, and the
\* start_suite call that follows such a call resolves again and sends
\* requests to the tracker.
C21_NextCallQueriesAgain ==
    /\ (tr_tags_list.isset \/ tr_stable_tags_list.isset)
          => resolve_calls = Len(caught_errors) + 1
    /\ ResolutionRaised(last_call)
          => /\ ~tr_tags_list.isset
             /\ ~tr_stable_tags_list.isset
    /\ last_call.after_raised
          => /\ last_call.resolved
             /\ QueriesOf(last_call) > 0
             /\ resolve_calls >= 2

\* C21 amended: a tag list is cached only when a resolution has returned;
\* after a call whose resolution raised both caches are unset and stay so
\* until a resolution returns; the first later start_suite call for a suite
\* that holds a test resolves again and sends requests to the tracker, while
\* a call for a suite without tests sends none and leaves the caches unset.
C21_CacheWrittenOnSuccessOnly ==
    /\ (tr_tags_list.isset \/ tr_stable_tags_list.isset)
          => resolve_calls = Len(caught_errors) + 1
    /\ ResolutionRaised(last_call)
          => /\ ~tr_tags_list.isset
             /\ ~tr_stable_tags_list.isset
    /\ last_call.after_raised
          => IF tests_local # <<>>
             THEN /\ last_call.resolved
                  /\ QueriesOf(last_call) > 0
                  /\ resolve_calls >= 2
             ELSE /\ ~last_call.resolved
                  /\ QueriesOf(last_call) = 0
                  /\ last_call.outcome = "ok"
                  /\ ~tr_tags_list.isset
                  /\ ~tr_stable_tags_list.isset

\* C21 witness: the first call caught an error, the second resolved again,
\* got an answer and kept a test.
C21_Witness ==
    /\ last_call.after_raised
    /\ Len(caught_errors) = 1
    /\ resolve_calls = 2
    /\ last_call.resolved
    /\ last_call.outcome = "ok"
    /\ ResolvedTags.isset
    /\ tests[LastSuite] # <<>>

====
